---- MODULE Spec2Model ----
(***************************************************************************)
(* tslite: a single-file time-series store (src/src/lib.rs).               *)
(*                                                                         *)
(* The backing file is a sequence of bytes: a 15-byte header (7-byte       *)
(* Timestamp, 8-byte little-endian record count) followed by 5-byte        *)
(* records (4-byte little-endian time_offset, 1-byte value).  A PhysicalDB *)
(* holds the path, an optional file handle and a cached copy of the        *)
(* header.  Every public method of PhysicalDB is one action.               *)
(***************************************************************************)
EXTENDS Integers, Sequences, FiniteSets, TLC

VARIABLES
    disk,       \* the bytes of the file at `path`
    file,       \* PhysicalDB.file: "None" or "Some" (the handle)
    header,     \* PhysicalDB.header: the in-memory DbHeader
    phase,      \* "uninit" (no PhysicalDB yet), "running", "panicked"
    result,     \* what the last call returned
    ts,         \* the date-time handed to create / to is_valid
    log,        \* history: the records of the append_record calls that returned Ok
    reordered,  \* history: reorder_record has returned Ok at least once
    interrupted, \* history: an append_record wrote its record and then failed, and
                \* the file has not been written since
    arg,        \* the RecordInfo handed to RecordInfo::as_bytes
    buf,        \* the Vec<u8> an as_bytes call returned
    replaced,   \* history: the length of the file that create truncated
    other       \* a second PhysicalDB over the same path: its file, header and
                \* phase while the calls are made on the first one

vars == <<disk, file, header, phase, result, ts, log, reordered, interrupted, arg, buf, replaced,
          other>>

(***************************************************************************)
(* Bounds of the model.                                                    *)
(***************************************************************************)
\* append_record is offered while the file holds fewer record slots than this
MaxRecords == 3

\* update_record_number is offered while the cached count stays at most this
MaxCount == 3


(***************************************************************************)
(* Sizes used by the code.                                                 *)
(***************************************************************************)
HeaderSize == 15
RecordSize == 5
CountOffset == 7
CheckHeaderSize == 120
CheckRecordSize == 40

(***************************************************************************)
(* Little-endian integers (byteorder::LittleEndian).                       *)
(***************************************************************************)
RECURSIVE write_le(_, _)
write_le(n, k) ==
    IF k = 0 THEN <<>> ELSE <<n % 256>> \o write_le(n \div 256, k - 1)

RECURSIVE read_le(_)
read_le(d) ==
    IF d = <<>> THEN 0 ELSE d[1] + 256 * read_le(Tail(d))

(***************************************************************************)
(* Timestamp                                                               *)
(***************************************************************************)
MkTimestamp(y, mo, d, h, mi, s) ==
    [year |-> y, month |-> mo, day |-> d, hour |-> h, minute |-> mi, second |-> s]

\* impl From<chrono::DateTime<Utc>> for Timestamp: the fields, cast to u16 / u8
Timestamp_from_chrono(d) ==
    MkTimestamp(d.year % 65536, d.month % 256, d.day % 256,
                d.hour % 256, d.minute % 256, d.second % 256)

\* variant: the day read before the month
Timestamp_from_day_first(d) ==
    MkTimestamp(read_le(SubSeq(d, 1, 2)), d[4], d[3], d[5], d[6], d[7])

\* impl From<&[u8]> for Timestamp
Timestamp_from(d) ==
    MkTimestamp(read_le(SubSeq(d, 1, 2)), d[3], d[4], d[5], d[6], d[7])

Timestamp_as_bytes(t) ==
    write_le(t.year, 2) \o <<t.month, t.day, t.hour, t.minute, t.second>>

is_valid(t) ==
    LET base == /\ 1 <= t.month /\ t.month <= 12
                /\ 1 <= t.day
                /\ t.hour < 24
                /\ t.minute < 60
                /\ t.second < 60
        factor(x) == t.year % x = 0
        leap == factor(4) /\ (~factor(100) \/ factor(400))
    IN  IF t.month = 2
        THEN base /\ (IF leap THEN t.day <= 29 ELSE t.day <= 28)
        ELSE base /\ (\/ (t.month % 2 = 0 /\ t.day <= 30)
                      \/ (t.month % 2 = 1 /\ t.day <= 31))

(***************************************************************************)
(* RecordInfo                                                              *)
(***************************************************************************)
MkRecord(o, v) == [time_offset |-> o, value |-> v]

\* impl From<&[u8]> for RecordInfo
RecordInfo_from(d) == MkRecord(read_le(SubSeq(d, 1, 4)), d[5])

\* variant: the time_offset written most significant byte first
RecordInfo_as_bytes_be(r) ==
    <<(r.time_offset \div 16777216) % 256, (r.time_offset \div 65536) % 256,
      (r.time_offset \div 256) % 256, r.time_offset % 256, r.value>>

RecordInfo_as_bytes(r) == write_le(r.time_offset, 4) \o <<r.value>>

\* impl Ord for RecordInfo: by time_offset only
RecordInfo_le(a, b) == a.time_offset <= b.time_offset

(***************************************************************************)
(* DbHeader                                                                *)
(***************************************************************************)
MkHeader(t, n) == [origin_date |-> t, records_number |-> n]

\* impl From<&[u8]> for DbHeader
DbHeader_from(d) ==
    MkHeader(Timestamp_from(d), read_le(SubSeq(d, CountOffset + 1, HeaderSize)))

DbHeader_as_bytes(h) ==
    Timestamp_as_bytes(h.origin_date) \o write_le(h.records_number, 8)

(***************************************************************************)
(* The file: positioned reads and writes (seek, then read / write).        *)
(***************************************************************************)
Min(a, b) == IF a <= b THEN a ELSE b

\* variant: a read past the end of the file fills the buffer with zeros
ReadAt_padded(d, pos, n) == [i \in 1..n |-> IF pos + i <= Len(d) THEN d[pos + i] ELSE 0]

\* seek(Start(pos)); read(buf of n bytes): the bytes present, at most n
ReadAt(d, pos, n) == SubSeq(d, pos + 1, Min(pos + n, Len(d)))

\* seek(Start(pos)); write(bytes), all bytes transferred
WriteAt(d, pos, bytes) ==
    [i \in 1..(IF pos + Len(bytes) > Len(d) THEN pos + Len(bytes) ELSE Len(d)) |->
        IF i > pos /\ i <= pos + Len(bytes) THEN bytes[i - pos]
        ELSE IF i <= Len(d) THEN d[i]
        ELSE 0]

\* Write::write(bytes) returning Ok(n): the first n bytes were transferred
Transfer(bytes, n) == SubSeq(bytes, 1, n)

(***************************************************************************)
(* Values returned by the calls.                                           *)
(***************************************************************************)
NoRecord == MkRecord(-1, -1)
NoHeader == MkHeader(MkTimestamp(-1, -1, -1, -1, -1, -1), -1)

\* a PhysicalDB that has not been created yet
NoStore == [file |-> "None", header |-> NoHeader, phase |-> "uninit"]

Ret(op, status) ==
    [op |-> op, status |-> status, issue |-> "-", idx |-> -1,
     rec |-> NoRecord, hdr |-> NoHeader, flag |-> FALSE]

(***************************************************************************)
(* read_header / read_record as functions of the file's bytes.             *)
(***************************************************************************)
HeaderReadable(d) == Len(ReadAt(d, 0, HeaderSize)) = HeaderSize
HeaderOf(d) == DbHeader_from(ReadAt(d, 0, HeaderSize))

\* variant: the records placed right after the origin date
RecordPos_after_date(rec_id) == 7 + (rec_id * 5)

RecordPos(rec_id) == (7 + 8) + (rec_id * 5)
RecordReadable(d, rec_id) == Len(ReadAt(d, RecordPos(rec_id), RecordSize)) = RecordSize
RecordOf(d, rec_id) == RecordInfo_from(ReadAt(d, RecordPos(rec_id), RecordSize))

(***************************************************************************)
(* check_db_file, as a function of the file's bytes.                       *)
(***************************************************************************)
Issue(name, i) == [issue |-> name, idx |-> i]

\* variant: a record as old as the one before it is flagged too
RECURSIVE check_scan_ge(_, _, _, _)
check_scan_ge(d, n, i, time_offset) ==
    IF i >= n THEN Issue("None", -1)
    ELSE IF ~RecordReadable(d, i) THEN Issue("RecordCorrupted", i)
    ELSE IF time_offset >= RecordOf(d, i).time_offset THEN Issue("UnorderedRecord", -1)
    ELSE check_scan_ge(d, n, i + 1, RecordOf(d, i).time_offset)

\* the loop over 0..header.records_number: the first record that cannot be
\* read, or that is older than the one before it
RECURSIVE check_scan(_, _, _, _)
check_scan(d, n, i, time_offset) ==
    IF i >= n THEN Issue("None", -1)
    ELSE IF ~RecordReadable(d, i) THEN Issue("RecordCorrupted", i)
    ELSE IF time_offset > RecordOf(d, i).time_offset THEN Issue("UnorderedRecord", -1)
    ELSE check_scan(d, n, i + 1, RecordOf(d, i).time_offset)

\* variant: sizes in bytes, and a file of exactly the expected size flagged
size_mismatch_ge(d, n) == Len(d) >= HeaderSize + RecordSize * n

\* metadata.len() > 120 + 40 * header.records_number
size_mismatch(d, n) == Len(d) > CheckHeaderSize + CheckRecordSize * n

\* variant: the origin date looked at after the records
check_issue_origin_last(d) ==
    IF ~HeaderReadable(d) THEN Issue("HeaderCorrupted", -1)
    ELSE LET n == HeaderOf(d).records_number
             scan == check_scan(d, n, 0, 0)
         IN  IF scan.issue # "None" THEN scan
             ELSE IF ~is_valid(HeaderOf(d).origin_date) THEN Issue("OriginDateInvalid", -1)
             ELSE IF size_mismatch(d, n) THEN Issue("MismatchRecordAmount", -1)
             ELSE Issue("None", -1)

check_issue(d) ==
    IF ~HeaderReadable(d) THEN Issue("HeaderCorrupted", -1)
    ELSE IF ~is_valid(HeaderOf(d).origin_date) THEN Issue("OriginDateInvalid", -1)
    ELSE LET n == HeaderOf(d).records_number
             scan == check_scan(d, n, 0, 0)
         IN  IF scan.issue # "None" THEN scan
             ELSE IF size_mismatch(d, n) THEN Issue("MismatchRecordAmount", -1)
             ELSE Issue("None", -1)

(***************************************************************************)
(* reorder_record: the records read, sorted and dumped.                    *)
(***************************************************************************)
IsSorted(s) == \A i \in 1..(Len(s) - 1) : RecordInfo_le(s[i], s[i + 1])

\* variant: the records dumped in the order they were read
sort_skipped(records) == {records}

\* variant: a sort that keeps one record of each time_offset, repeated
sort_merged(records) ==
    LET n == Len(records)
        sorted == {s \in {[i \in 1..n |-> records[p[i]]] : p \in Permutations(1..n)} :
                      IsSorted(s)}
        first(s, i) == CHOOSE j \in 1..i :
                          /\ s[j].time_offset = s[i].time_offset
                          /\ \A k \in 1..(j - 1) : s[k].time_offset # s[i].time_offset
    IN  {[i \in 1..n |-> s[first(s, i)]] : s \in sorted}

\* records.sort_unstable(): some arrangement of the records that is sorted by
\* time_offset; the order of records with equal time_offset is not specified
sort_unstable(records) ==
    LET n == Len(records)
    IN  {s \in {[i \in 1..n |-> records[p[i]]] : p \in Permutations(1..n)} : IsSorted(s)}

RECURSIVE dump(_)
dump(records) ==
    IF records = <<>> THEN <<>>
    ELSE RecordInfo_as_bytes(Head(records)) \o dump(Tail(records))

\* the write loop of reorder_record when the write of record i transfers
\* x[i] bytes: the cursor advances by what was transferred
RECURSIVE dump_transfers(_, _, _)
dump_transfers(records, x, i) ==
    IF i > Len(records) THEN <<>>
    ELSE Transfer(RecordInfo_as_bytes(records[i]), x[i]) \o dump_transfers(records, x, i + 1)

(***************************************************************************)
(* update_record_number: the count written at offset 7, then the cache.    *)
(***************************************************************************)
\* variant: the delta written as the count
count_written_abs(d, h, drn) ==
    WriteAt(d, CountOffset, write_le(drn, 8))

\* variant: the delta added to the count that the file holds
count_written_from_disk(d, h, drn) ==
    WriteAt(d, CountOffset, write_le(HeaderOf(d).records_number + drn, 8))

count_written(d, h, drn) ==
    WriteAt(d, CountOffset, write_le(h.records_number + drn, 8))

\* write_u64 (write_all) returning Err after k of the 8 bytes were transferred
count_written_partly(d, h, drn, k) ==
    WriteAt(d, CountOffset, Transfer(write_le(h.records_number + drn, 8), k))

count_cached(h, drn) == [h EXCEPT !.records_number = @ + drn]

(***************************************************************************)
(* The date-times chrono can hold: real calendar dates.                    *)
(***************************************************************************)
IsLeapYear(y) == y % 4 = 0 /\ (y % 100 # 0 \/ y % 400 = 0)

DaysInMonth(y, m) ==
    IF m = 2 THEN (IF IsLeapYear(y) THEN 29 ELSE 28)
    ELSE IF m \in {4, 6, 9, 11} THEN 30
    ELSE 31

IsRealDate(t) ==
    /\ t.month \in 1..12
    /\ t.day \in 1..DaysInMonth(t.year, t.month)
    /\ t.hour \in 0..23
    /\ t.minute \in 0..59
    /\ t.second \in 0..59

\* the origin dates of the stores of Spec: the date of the tests and a last
\* day of August
Origins == {MkTimestamp(1994, 7, 8, 6, 55, 34), MkTimestamp(2000, 8, 31, 0, 0, 0)}

\* the records that are appended: two of them share a time_offset, and one
\* time_offset needs more than one byte
Records == {MkRecord(0, 0), MkRecord(1, 0), MkRecord(1, 7), MkRecord(256, 3)}

Slots(d) == IF Len(d) <= HeaderSize THEN 0 ELSE (Len(d) - HeaderSize) \div RecordSize

(***************************************************************************)
(* The operations of PhysicalDB.                                           *)
(***************************************************************************)
\* variant: the file opened for writing without truncation
created_file_kept(d, h, n_written) ==
    WriteAt(d, 0, Transfer(DbHeader_as_bytes(h), n_written))

\* File::create(path) truncates whatever d the path held; file.write(header)
\* then transfers n_written bytes
created_file(d, h, n_written) ==
    WriteAt(<<>>, 0, Transfer(DbHeader_as_bytes(h), n_written))

\* variant: open on a store that holds a handle drops it
opened_toggle(f) == IF f = "Some" THEN "None" ELSE "Some"

\* open: nothing to do with a handle, else the file is opened
opened(f) == IF f = "Some" THEN f ELSE "Some"

\* close: the handle synced and dropped when there is one
closed(f) == IF f = "Some" THEN "None" ELSE f

\* PhysicalDB::create(path, Some(ts)): the file truncated, the header written
\* (file.write transfers n_written bytes), the handle dropped
create(n_written) ==
    /\ phase = "uninit"
    /\ IsRealDate(ts)
    /\ LET h == MkHeader(Timestamp_from_chrono(ts), 0)
       IN  /\ disk' = created_file(disk, h, n_written)
           /\ header' = h
    /\ file' = "None"
    /\ phase' = "running"
    /\ result' = Ret("create", "ok")
    /\ log' = <<>>
    /\ reordered' = FALSE
    /\ interrupted' = FALSE
    /\ replaced' = Len(disk)
    /\ UNCHANGED <<ts, arg, buf, other>>

\* the flag of the value returned records whether self.file.is_some() held
\* when open (close) was entered
open ==
    /\ phase = "running"
    /\ file' = opened(file)
    /\ result' = [Ret("open", "ok") EXCEPT !.flag = (file = "Some")]
    /\ UNCHANGED <<disk, header, phase, ts, log, reordered, interrupted, arg, buf, replaced, other>>

close ==
    /\ phase = "running"
    /\ file' = closed(file)
    /\ result' = [Ret("close", "ok") EXCEPT !.flag = (file = "Some")]
    /\ UNCHANGED <<disk, header, phase, ts, log, reordered, interrupted, arg, buf, replaced, other>>

\* variant: read_header keeps the header it read as the in-memory header
read_header_caching ==
    /\ phase = "running"
    /\ file' = "Some"
    /\ header' = IF HeaderReadable(disk) THEN HeaderOf(disk) ELSE header
    /\ result' = IF HeaderReadable(disk)
                 THEN [Ret("read_header", "ok") EXCEPT !.hdr = HeaderOf(disk)]
                 ELSE Ret("read_header", "err")
    /\ UNCHANGED <<disk, phase, ts, log, reordered, interrupted, arg, buf, replaced, other>>

read_header ==
    /\ phase = "running"
    /\ file' = "Some"
    /\ result' = IF HeaderReadable(disk)
                 THEN [Ret("read_header", "ok") EXCEPT !.hdr = HeaderOf(disk)]
                 ELSE Ret("read_header", "err")
    /\ UNCHANGED <<disk, header, phase, ts, log, reordered, interrupted, arg, buf, replaced, other>>

read_record(rec_id) ==
    /\ phase = "running"
    /\ file' = "Some"
    /\ result' = IF RecordReadable(disk, rec_id)
                 THEN [Ret("read_record", "ok") EXCEPT !.idx = rec_id,
                                                       !.rec = RecordOf(disk, rec_id)]
                 ELSE [Ret("read_record", "err") EXCEPT !.idx = rec_id]
    /\ UNCHANGED <<disk, header, phase, ts, log, reordered, interrupted, arg, buf, replaced, other>>

\* append_record opens the file only when it is already open; on a closed
\* store self.file.as_ref().unwrap() panics.  count_io is the outcome of the
\* I/O of update_record_number(1): "ok", "err" when its seek fails, "partly"
\* when its write fails after the first byte.  fref.write transfers n_written
\* bytes of the record
append_record(rec_nfo, n_written, count_io) ==
    /\ phase = "running"
    /\ Slots(disk) < MaxRecords
    /\ IF file = "None"
       THEN /\ phase' = "panicked"
            /\ result' = Ret("append_record", "panic")
            /\ UNCHANGED <<disk, file, header, ts, log, reordered, interrupted, arg, buf, replaced, other>>
       ELSE LET written == WriteAt(disk, Len(disk),
                                   Transfer(RecordInfo_as_bytes(rec_nfo), n_written))
            IN  IF count_io = "ok"
                THEN /\ disk' = count_written(written, header, 1)
                     /\ header' = count_cached(header, 1)
                     /\ result' = [Ret("append_record", "ok") EXCEPT !.rec = rec_nfo]
                     /\ log' = Append(log, rec_nfo)
                     /\ interrupted' = FALSE
                     /\ UNCHANGED <<file, phase, ts, reordered, arg, buf, replaced, other>>
                ELSE /\ disk' = IF count_io = "partly"
                                  THEN count_written_partly(written, header, 1, 1)
                                  ELSE written
                     /\ result' = [Ret("append_record", "err") EXCEPT !.rec = rec_nfo]
                     /\ interrupted' = TRUE
                     /\ UNCHANGED <<file, header, phase, ts, log, reordered, arg, buf, replaced, other>>

check_db_file ==
    /\ phase = "running"
    /\ file' = "Some"
    /\ result' = [Ret("check_db_file", "ok") EXCEPT !.issue = check_issue(disk).issue,
                                                    !.idx = check_issue(disk).idx]
    /\ UNCHANGED <<disk, header, phase, ts, log, reordered, interrupted, arg, buf, replaced, other>>

\* update_record_number(drn), called directly: the file opened when there is
\* no handle, the count written at offset 7, then the cache updated; the
\* value returned is recorded with drn as its idx
update_record_number(drn, count_io) ==
    /\ phase = "running"
    /\ header.records_number + drn <= MaxCount
    /\ file' = "Some"
    /\ IF count_io = "ok"
       THEN /\ disk' = count_written(disk, header, drn)
            /\ header' = count_cached(header, drn)
            /\ result' = [Ret("update_record_number", "ok") EXCEPT !.idx = drn]
       ELSE /\ disk' = IF count_io = "partly"
                        THEN count_written_partly(disk, header, drn, 1)
                        ELSE disk
            /\ header' = header
            /\ result' = [Ret("update_record_number", "err") EXCEPT !.idx = drn]
    /\ interrupted' = FALSE
    /\ UNCHANGED <<phase, ts, log, reordered, arg, buf, replaced, other>>

\* reorder_record reads header.records_number records (the cached count);
\* read_record opens the file, so with no record to read a closed store
\* reaches self.file.as_ref().unwrap() with no handle.  Each write of the
\* dump transfers a number of bytes drawn from transfers
reorder_record(transfers) ==
    /\ phase = "running"
    /\ LET n == header.records_number
       IN  IF n = 0 /\ file = "None"
           THEN /\ phase' = "panicked"
                /\ result' = Ret("reorder_record", "panic")
                /\ UNCHANGED <<disk, file, header, ts, log, reordered, interrupted, arg, buf, replaced, other>>
           ELSE IF \E i \in 0..(n - 1) : ~RecordReadable(disk, i)
           THEN /\ file' = "Some"
                /\ result' = Ret("reorder_record", "err")
                /\ UNCHANGED <<disk, header, phase, ts, log, reordered, interrupted, arg, buf, replaced, other>>
           ELSE /\ \E s \in sort_unstable([i \in 1..n |-> RecordOf(disk, i - 1)]) :
                   \E x \in [1..n -> transfers] :
                      disk' = WriteAt(disk, HeaderSize, dump_transfers(s, x, 1))
                /\ file' = IF n = 0 THEN file ELSE "Some"
                /\ result' = Ret("reorder_record", "ok")
                /\ reordered' = TRUE
                /\ interrupted' = FALSE
                /\ UNCHANGED <<header, phase, ts, log, arg, buf, replaced, other>>

(***************************************************************************)
(* Spec: one PhysicalDB, from create on, with no I/O failure.              *)
(***************************************************************************)
Init ==
    /\ disk = <<>>
    /\ file = "None"
    /\ header = NoHeader
    /\ phase = "uninit"
    /\ result = Ret("-", "-")
    /\ ts \in Origins
    /\ log = <<>>
    /\ reordered = FALSE
    /\ interrupted = FALSE
    /\ arg = NoRecord
    /\ buf = <<>>
    /\ replaced = 0
    /\ other = NoStore

Next ==
    \/ create(HeaderSize)
    \/ open
    \/ close
    \/ read_header
    \/ \E rec_id \in 0..MaxRecords : read_record(rec_id)
    \/ \E r \in Records : append_record(r, RecordSize, "ok")
    \/ check_db_file
    \/ reorder_record({RecordSize})

Spec == Init /\ [][Next]_vars

(***************************************************************************)
(* SpecFault: the same store, where the I/O of update_record_number may    *)
(* fail inside append_record.                                              *)
(***************************************************************************)
NextFault ==
    \/ create(HeaderSize)
    \/ open
    \/ close
    \/ read_header
    \/ \E rec_id \in 0..MaxRecords : read_record(rec_id)
    \/ \E r \in Records, count_io \in {"ok", "err"} : append_record(r, RecordSize, count_io)
    \/ check_db_file
    \/ reorder_record({RecordSize})

SpecFault == Init /\ [][NextFault]_vars

(***************************************************************************)
(* SpecTs: is_valid on Timestamps of any field values, and the stores      *)
(* created from those that are real date-times.                            *)
(***************************************************************************)
TsInputs ==
    {MkTimestamp(y, mo, d, h, mi, s) :
        y \in {1900, 2000, 2023, 2024}, mo \in 0..13, d \in {0, 1, 28, 29, 30, 31, 32},
        h \in {0, 23, 24}, mi \in {59, 60}, s \in {59, 60}}

is_valid_call ==
    /\ phase = "uninit"
    /\ result' = [Ret("is_valid", "ok") EXCEPT !.flag = is_valid(ts)]
    /\ UNCHANGED <<disk, file, header, phase, ts, log, reordered, interrupted, arg, buf, replaced, other>>

InitTs ==
    /\ disk = <<>>
    /\ file = "None"
    /\ header = NoHeader
    /\ phase = "uninit"
    /\ result = Ret("-", "-")
    /\ ts \in TsInputs
    /\ log = <<>>
    /\ reordered = FALSE
    /\ interrupted = FALSE
    /\ arg = NoRecord
    /\ buf = <<>>
    /\ replaced = 0
    /\ other = NoStore

NextTs ==
    \/ is_valid_call
    \/ create(HeaderSize)
    \/ read_header
    \/ check_db_file

SpecTs == InitTs /\ [][NextTs]_vars

(***************************************************************************)
(* SpecExt: the store and an environment that rewrites or truncates the    *)
(* file behind its back (the corruption check_db_file is there to find),   *)
(* with update_record_number called directly.                              *)
(***************************************************************************)
GoodOrigin == MkTimestamp(1994, 7, 8, 6, 55, 34)
BadOrigin == MkTimestamp(1994, 13, 8, 6, 55, 34)

\* record sequences: none, ordered, unordered at slot 1, unordered at slot 2
ExtBodies ==
    {<<>>,
     <<MkRecord(1, 0)>>,
     <<MkRecord(0, 0), MkRecord(1, 7)>>,
     <<MkRecord(1, 7), MkRecord(0, 0)>>,
     <<MkRecord(0, 0), MkRecord(1, 0), MkRecord(256, 3)>>,
     <<MkRecord(1, 0), MkRecord(0, 0), MkRecord(256, 3)>>,
     <<MkRecord(0, 0), MkRecord(256, 3), MkRecord(1, 0)>>}

\* a file whose header counts no record and that is longer than 120 bytes
LongFile ==
    DbHeader_as_bytes(MkHeader(GoodOrigin, 0)) \o [i \in 1..(22 * RecordSize) |-> 0]

\* the contents the environment may give the file: a header with either
\* origin and a count from 0 to 3, a body, and possibly two stray bytes
FileInputs ==
    {DbHeader_as_bytes(MkHeader(o, n)) \o dump(b) \o t :
        o \in {GoodOrigin, BadOrigin}, n \in {0, 2, 3}, b \in ExtBodies,
        t \in {<<>>, <<9, 9>>}}
    \cup {LongFile}

ext_write(f) ==
    /\ phase = "running"
    /\ disk' = f
    /\ result' = Ret("external", "-")
    /\ interrupted' = FALSE
    /\ UNCHANGED <<file, header, phase, ts, log, reordered, arg, buf, replaced, other>>

ext_truncate(n) ==
    /\ phase = "running"
    /\ n < Len(disk)
    /\ disk' = SubSeq(disk, 1, n)
    /\ result' = Ret("external", "-")
    /\ interrupted' = FALSE
    /\ UNCHANGED <<file, header, phase, ts, log, reordered, arg, buf, replaced, other>>

InitExt ==
    /\ disk = <<>>
    /\ file = "None"
    /\ header = NoHeader
    /\ phase = "uninit"
    /\ result = Ret("-", "-")
    /\ ts = GoodOrigin
    /\ log = <<>>
    /\ reordered = FALSE
    /\ interrupted = FALSE
    /\ arg = NoRecord
    /\ buf = <<>>
    /\ replaced = 0
    /\ other = NoStore

NextExt ==
    \/ create(HeaderSize)
    \/ close
    \/ read_header
    \/ \E rec_id \in 0..1 : read_record(rec_id)
    \/ \E drn \in {1, 2} : update_record_number(drn, "ok")
    \/ check_db_file
    \/ reorder_record({RecordSize})
    \/ \E f \in FileInputs : ext_write(f)
    \/ \E n \in 0..(HeaderSize - 1) : ext_truncate(n)

SpecExt == InitExt /\ [][NextExt]_vars

(***************************************************************************)
(* SpecCreate: create on a path that may already hold a file.              *)
(***************************************************************************)
InitCreate ==
    /\ disk \in FileInputs \cup {<<>>, <<9, 9, 9>>}
    /\ file = "None"
    /\ header = NoHeader
    /\ phase = "uninit"
    /\ result = Ret("-", "-")
    /\ ts \in Origins
    /\ log = <<>>
    /\ reordered = FALSE
    /\ interrupted = FALSE
    /\ arg = NoRecord
    /\ buf = <<>>
    /\ replaced = 0
    /\ other = NoStore

NextCreate ==
    \/ create(HeaderSize)
    \/ open
    \/ close
    \/ read_header
    \/ check_db_file

SpecCreate == InitCreate /\ [][NextCreate]_vars

(***************************************************************************)
(* SpecIO: one store and no external change, where the I/O of              *)
(* update_record_number may fail before or after its first byte, inside    *)
(* append_record or when update_record_number is called directly.          *)
(***************************************************************************)
IORecords == {MkRecord(0, 0), MkRecord(256, 3)}

CountIO == {"ok", "err", "partly"}

NextIO ==
    \/ create(HeaderSize)
    \/ open
    \/ close
    \/ read_header
    \/ \E rec_id \in 0..1 : read_record(rec_id)
    \/ \E count_io \in CountIO : update_record_number(1, count_io)
    \/ \E r \in IORecords, count_io \in CountIO : append_record(r, RecordSize, count_io)
    \/ check_db_file
    \/ reorder_record({RecordSize})

SpecIO == Init /\ [][NextIO]_vars

(***************************************************************************)
(* SpecShort: one store and no external change, where a write may transfer *)
(* fewer bytes than it was given; reorder_record is run at most once.      *)
(***************************************************************************)
\* the numbers of bytes a write of the header / of a record may transfer
HeaderTransfers == {HeaderSize, HeaderSize - 1}
RecordTransfers == {RecordSize, RecordSize - 3}

\* the record appended: its first byte is 0, so that the record that
\* append_record writes over the last byte of a 14-byte header leaves a
\* records_number below 2^31
ShortRecords == {MkRecord(256, 3)}

\* reorder_record, on a store that has not run it yet
reorder_record_once(transfers) ==
    /\ ~reordered
    /\ reorder_record(transfers)

NextShort ==
    \/ \E n_written \in HeaderTransfers : create(n_written)
    \/ open
    \/ close
    \/ read_header
    \/ \E rec_id \in 0..1 : read_record(rec_id)
    \/ \E r \in ShortRecords, n_written \in RecordTransfers : append_record(r, n_written, "ok")
    \/ check_db_file
    \/ reorder_record_once(RecordTransfers)

SpecShort == Init /\ [][NextShort]_vars

(***************************************************************************)
(* SpecTwo: two PhysicalDB values over the same path, their calls          *)
(* interleaved without serialization, each call running to its end.        *)
(***************************************************************************)
TwoRecords == {MkRecord(0, 0), MkRecord(1, 7)}

\* the next calls are made on the other PhysicalDB
switch ==
    /\ phase = "running"
    /\ file' = other.file
    /\ header' = other.header
    /\ phase' = other.phase
    /\ other' = [file |-> file, header |-> header, phase |-> phase]
    /\ result' = Ret("switch", "-")
    /\ UNCHANGED <<disk, ts, log, reordered, interrupted, arg, buf, replaced>>

NextTwo ==
    \/ create(HeaderSize)
    \/ open
    \/ \E drn \in {1, 2} : update_record_number(drn, "ok")
    \/ \E r \in TwoRecords : append_record(r, RecordSize, "ok")
    \/ switch

SpecTwo == Init /\ [][NextTwo]_vars

(***************************************************************************)
(* SpecCodec: as_bytes and from applied to RecordInfo and Timestamp values, *)
(* with no store.                                                          *)
(***************************************************************************)
\* time_offsets at the byte boundaries of a u32, up to the largest integer
\* that TLC holds (2^31 - 1)
CodecOffsets == {0, 1, 255, 256, 65535, 65536, 16777215, 16777216, 2147483647}

CodecRecords == {MkRecord(o, v) : o \in CodecOffsets, v \in {0, 7, 255}}

\* years at the byte boundaries of a u16, and the extremes of the u8 fields
CodecTimestamps ==
    {MkTimestamp(y, 7, 8, 6, 55, 34) : y \in {0, 255, 256, 1994, 65535}}
    \cup {MkTimestamp(1994, 0, 0, 0, 0, 0), MkTimestamp(1994, 255, 255, 255, 255, 255),
          MkTimestamp(513, 1, 2, 3, 4, 5), MkTimestamp(1994, 255, 0, 255, 0, 255)}

RecordInfo_as_bytes_call ==
    /\ phase = "uninit"
    /\ buf' = RecordInfo_as_bytes(arg)
    /\ result' = Ret("RecordInfo_as_bytes", "ok")
    /\ UNCHANGED <<disk, file, header, phase, ts, log, reordered, interrupted, arg, replaced, other>>

RecordInfo_from_call ==
    /\ phase = "uninit"
    /\ Len(buf) = RecordSize
    /\ result' = [Ret("RecordInfo_from", "ok") EXCEPT !.rec = RecordInfo_from(buf)]
    /\ UNCHANGED <<disk, file, header, phase, ts, log, reordered, interrupted, arg, buf, replaced, other>>

Timestamp_as_bytes_call ==
    /\ phase = "uninit"
    /\ buf' = Timestamp_as_bytes(ts)
    /\ result' = Ret("Timestamp_as_bytes", "ok")
    /\ UNCHANGED <<disk, file, header, phase, ts, log, reordered, interrupted, arg, replaced, other>>

\* the Timestamp decoded is returned in the origin_date of result.hdr
Timestamp_from_call ==
    /\ phase = "uninit"
    /\ Len(buf) = CountOffset
    /\ result' = [Ret("Timestamp_from", "ok") EXCEPT !.hdr.origin_date = Timestamp_from(buf)]
    /\ UNCHANGED <<disk, file, header, phase, ts, log, reordered, interrupted, arg, buf, replaced, other>>

InitCodec ==
    /\ disk = <<>>
    /\ file = "None"
    /\ header = NoHeader
    /\ phase = "uninit"
    /\ result = Ret("-", "-")
    /\ ts \in CodecTimestamps
    /\ log = <<>>
    /\ reordered = FALSE
    /\ interrupted = FALSE
    /\ arg \in CodecRecords
    /\ buf = <<>>
    /\ replaced = 0
    /\ other = NoStore

NextCodec ==
    \/ RecordInfo_as_bytes_call
    \/ RecordInfo_from_call
    \/ Timestamp_as_bytes_call
    \/ Timestamp_from_call

SpecCodec == InitCodec /\ [][NextCodec]_vars

(***************************************************************************)
(* Properties.                                                             *)
(***************************************************************************)
\* what the file holds, read through the header's own count
DiskCount == HeaderOf(disk).records_number
DiskOffset(i) == RecordOf(disk, i).time_offset
DiskOrdered == \A i \in 1..(DiskCount - 1) : DiskOffset(i - 1) <= DiskOffset(i)
DiskAllReadable == \A i \in 0..(DiskCount - 1) : RecordReadable(disk, i)
DiskOriginValid == IsRealDate(HeaderOf(disk).origin_date) /\ is_valid(HeaderOf(disk).origin_date)
LogOrdered == \A i \in 1..(Len(log) - 1) : log[i].time_offset <= log[i + 1].time_offset

\* C1: on a store whose handle was opened, after k successful append_record
\* calls with records r_0..r_{k-1} (and no reorder), read_record(i) returns
\* exactly r_i for every i < k, read_header returns records_number = k, and
\* the file is exactly 15 + 5*k bytes long.
C1_AppendReadBack ==
    (phase = "running" /\ ~reordered) =>
        /\ Len(disk) = 15 + 5 * Len(log)
        /\ \A i \in 0..(Len(log) - 1) :
              RecordReadable(disk, i) /\ RecordOf(disk, i) = log[i + 1]
        /\ HeaderReadable(disk) /\ DiskCount = Len(log)
        /\ (result.op = "read_record" /\ result.idx < Len(log)) =>
              (result.status = "ok" /\ result.rec = log[result.idx + 1])
        /\ result.op = "read_header" =>
              (result.status = "ok" /\ result.hdr.records_number = Len(log))

C1_Witness ==
    /\ phase = "running" /\ ~reordered
    /\ Len(log) = 3
    /\ log[1].time_offset = 256 /\ log[2].time_offset = 1
    /\ result.op = "read_record" /\ result.idx = 2 /\ result.status = "ok"

\* C2 (as claimed): for a file with a readable header, a valid origin date and
\* records_number readable, non-decreasing records, check_db_file returns
\* MismatchRecordAmount whenever the file is longer than 15 + 5*records_number
\* bytes, and None only when it is not.
C2_MismatchWhenLonger ==
    (/\ result.op = "check_db_file"
     /\ HeaderReadable(disk) /\ DiskOriginValid
     /\ DiskAllReadable /\ DiskOrdered) =>
        /\ Len(disk) > 15 + 5 * DiskCount => result.issue = "MismatchRecordAmount"
        /\ result.issue = "None" => Len(disk) <= 15 + 5 * DiskCount

\* C3 (as claimed): every operation that needs the file, called on a store
\* whose backing file exists, completes without aborting and leaves the store
\* open, whether the store was closed or open before.
C3_LazyOpen ==
    result.op \in {"read_header", "read_record", "append_record",
                   "check_db_file", "reorder_record"} =>
        (result.status # "panic" /\ phase = "running" /\ file = "Some")

\* C4 (as claimed): once an append_record wrote its record and failed before
\* the count update, the file holds one record slot more than its header says,
\* and the next check_db_file (origin valid, records ordered) returns
\* MismatchRecordAmount.
C4_InterruptedAppendDetected ==
    (/\ interrupted
     /\ Slots(disk) = DiskCount + 1
     /\ DiskOriginValid /\ DiskOrdered
     /\ result.op = "check_db_file") =>
        result.issue = "MismatchRecordAmount"

\* C5: after a successful reorder_record on a store with an open handle and
\* exactly records_number complete record slots, the records in slots
\* 0..records_number-1 are in non-decreasing time_offset order, and (origin
\* valid) a check_db_file of the file as it then is returns None.
C5_ReorderSorts ==
    (/\ result.op = "reorder_record" /\ result.status = "ok"
     /\ Slots(disk) = DiskCount) =>
        /\ \A i, j \in 0..(DiskCount - 1) : i < j => DiskOffset(i) <= DiskOffset(j)
        /\ DiskOriginValid => check_issue(disk).issue = "None"

C5_Witness ==
    /\ result.op = "reorder_record" /\ result.status = "ok"
    /\ DiskOriginValid
    /\ Len(log) = 3 /\ DiskCount = 3
    /\ log[1].time_offset = 256 /\ log[2].time_offset = 1 /\ log[3].time_offset = 0

\* C6: for a file with a readable header, a valid origin date and all
\* records_number records readable, check_db_file returns UnorderedRecord
\* exactly when some record i >= 1 has a time_offset strictly below that of
\* record i-1; equal neighbours and the first record are never flagged.
C6_UnorderedIff ==
    (/\ result.op = "check_db_file"
     /\ HeaderReadable(disk) /\ DiskOriginValid /\ DiskAllReadable) =>
        (result.issue = "UnorderedRecord"
            <=> \E i \in 1..(DiskCount - 1) : DiskOffset(i) < DiskOffset(i - 1))

\* an unordered file whose first two records are equal and not at offset 0
C6_Witness ==
    /\ result.op = "check_db_file" /\ result.issue = "UnorderedRecord"
    /\ DiskOriginValid /\ DiskCount = 3 /\ DiskAllReadable
    /\ DiskOffset(0) = 256 /\ DiskOffset(1) = 256 /\ DiskOffset(2) = 1

\* C7: after create with an origin date that passes is_valid and successful
\* append_record calls with non-decreasing time_offsets (no other mutation),
\* check_db_file returns None.
C7_HealthyAfterOrderedAppends ==
    (/\ result.op = "check_db_file"
     /\ ~reordered
     /\ is_valid(header.origin_date)
     /\ LogOrdered) =>
        (result.status = "ok" /\ result.issue = "None")

C7_Witness ==
    /\ result.op = "check_db_file" /\ ~reordered
    /\ is_valid(header.origin_date)
    /\ Len(log) = 3 /\ LogOrdered
    /\ log[1].time_offset = 1 /\ log[2].time_offset = 1 /\ log[3].time_offset = 256

\* C8: in every state reached from create by successfully completed open,
\* close, read_header, read_record, append_record, check_db_file and
\* reorder_record calls, the records_number on disk equals the number of
\* complete record slots: the file is 15 + 5*records_number bytes long.
C8_CountMatchesSlots ==
    phase = "running" =>
        /\ HeaderReadable(disk)
        /\ Len(disk) = 15 + 5 * DiskCount
        /\ Slots(disk) = DiskCount

C8_Witness ==
    /\ phase = "running"
    /\ DiskCount = 3 /\ Slots(disk) = 3
    /\ reordered /\ file = "None"

\* C9 (as claimed): is_valid is true of every Timestamp built from a real
\* calendar date-time, so a store created from a real date-time is never
\* classified OriginDateInvalid by check_db_file.
C9_RealDatesValid ==
    /\ (result.op = "is_valid" /\ IsRealDate(ts)) => result.flag
    /\ result.op = "check_db_file" => result.issue # "OriginDateInvalid"

\* C10 (as claimed): is_valid is false of every Timestamp that is not a real
\* calendar date-time.
C10_UnrealDatesInvalid ==
    (result.op = "is_valid" /\ ~IsRealDate(ts)) => ~result.flag

\* C11: create returns success and leaves a file of exactly 15 bytes whose
\* header decodes to records_number = 0 and to the origin given, whatever the
\* path held before; the store returned has no handle and a cached count of 0.
C11_CreateFresh ==
    result.op = "create" =>
        /\ result.status = "ok"
        /\ Len(disk) = 15
        /\ HeaderReadable(disk)
        /\ DiskCount = 0
        /\ HeaderOf(disk).origin_date = ts
        /\ file = "None"
        /\ header = MkHeader(ts, 0)

\* create on a path that held a file longer than 120 bytes
C11_Witness ==
    /\ result.op = "create" /\ result.status = "ok"
    /\ replaced > CheckHeaderSize
    /\ Len(disk) = 15 /\ DiskCount = 0

\* C12: while the file is shorter than 15 bytes, read_header returns an
\* error, and check_db_file returns Ok(HeaderCorrupted), whatever count the
\* in-memory header holds.
C12_ShortFile ==
    Len(disk) < 15 =>
        /\ check_issue(disk).issue = "HeaderCorrupted"
        /\ result.op = "read_header" => result.status = "err"
        /\ result.op = "check_db_file" =>
              (result.status = "ok" /\ result.issue = "HeaderCorrupted")

\* read_header on a file of 14 bytes by a store whose cached count is 2
C12_Witness ==
    /\ Len(disk) = 14
    /\ header.records_number = 2
    /\ result.op = "read_header" /\ result.status = "err"

\* the records_number records of the file that check_db_file stops at: those
\* that cannot be read, and those older than the record before them
DiskBad ==
    {i \in 0..(DiskCount - 1) :
        \/ ~RecordReadable(disk, i)
        \/ i >= 1 /\ RecordReadable(disk, i - 1) /\ DiskOffset(i) < DiskOffset(i - 1)}

DiskFirstBad == CHOOSE i \in DiskBad : \A j \in DiskBad : i <= j

\* C15: check_db_file always returns Ok, with the first issue in a fixed
\* precedence: HeaderCorrupted when the header cannot be read; else
\* OriginDateInvalid when the origin date fails is_valid, whatever the records
\* hold; else the lowest index below records_number that cannot be read
\* (RecordCorrupted(i)) or is out of order (UnorderedRecord) decides; and
\* MismatchRecordAmount or None only when the scan found nothing.
C15_CheckPrecedence ==
    result.op = "check_db_file" =>
        /\ result.status = "ok"
        /\ IF ~HeaderReadable(disk) THEN result.issue = "HeaderCorrupted"
           ELSE IF ~is_valid(HeaderOf(disk).origin_date)
                THEN result.issue = "OriginDateInvalid"
           ELSE IF DiskBad # {}
                THEN IF RecordReadable(disk, DiskFirstBad)
                     THEN result.issue = "UnorderedRecord"
                     ELSE result.issue = "RecordCorrupted" /\ result.idx = DiskFirstBad
           ELSE result.issue \in {"MismatchRecordAmount", "None"}

\* an origin date with month 13 in front of records that are out of order
\* and of a record that cannot be read
C15_Witness ==
    /\ result.op = "check_db_file" /\ result.issue = "OriginDateInvalid"
    /\ HeaderOf(disk).origin_date = BadOrigin
    /\ DiskCount = 3 /\ Slots(disk) = 2
    /\ DiskOffset(1) < DiskOffset(0)

\* C16: for a file with a readable header and a valid origin date that is
\* shorter than 15 + 5*records_number and whose complete record slots are in
\* non-decreasing order, check_db_file returns RecordCorrupted(i) with
\* i = floor((size - 15) / 5).
C16_TruncatedBody ==
    (/\ result.op = "check_db_file"
     /\ HeaderReadable(disk) /\ DiskOriginValid
     /\ Len(disk) < 15 + 5 * DiskCount
     /\ \A i \in 1..(((Len(disk) - 15) \div 5) - 1) : DiskOffset(i - 1) <= DiskOffset(i)) =>
        /\ result.status = "ok"
        /\ result.issue = "RecordCorrupted"
        /\ result.idx = (Len(disk) - 15) \div 5

\* a file cut in the middle of its third record, the first two in order
C16_Witness ==
    /\ result.op = "check_db_file" /\ result.issue = "RecordCorrupted" /\ result.idx = 2
    /\ DiskOriginValid /\ DiskCount = 3
    /\ Len(disk) = 15 + 5 * 2 + 2
    /\ DiskOffset(0) = 0 /\ DiskOffset(1) = 1

\* C13: open and close always return Ok and change neither the file's bytes
\* nor the in-memory header; after open there is a handle and after close
\* there is none, so open on a store with a handle and close on a store
\* without one change nothing, and a second open (close) in a row leaves the
\* state the first one left.
C13_OpenCloseIdempotent ==
    [][/\ result'.op = "open" =>
            /\ result'.status = "ok"
            /\ file' = "Some" /\ opened(file') = file'
            /\ file = "Some" => file' = file
            /\ disk' = disk /\ header' = header
       /\ result'.op = "close" =>
            /\ result'.status = "ok"
            /\ file' = "None" /\ closed(file') = file'
            /\ file = "None" => file' = file
            /\ disk' = disk /\ header' = header]_vars

\* open on a store that already held its handle, with two records in the file
C13_Witness ==
    /\ result.op = "open" /\ result.flag
    /\ file = "Some"
    /\ Len(log) = 2

\* C14: RecordInfo::as_bytes gives exactly 5 bytes (time_offset little-endian,
\* then value) and RecordInfo::from of those bytes gives the record back;
\* Timestamp::as_bytes gives exactly 7 bytes (year little-endian on 2 bytes,
\* then month, day, hour, minute, second) and Timestamp::from of those bytes
\* gives the Timestamp back.
C14_CodecRoundTrip ==
    /\ result.op = "RecordInfo_as_bytes" =>
          /\ Len(buf) = 5
          /\ buf[1] = arg.time_offset % 256
          /\ buf[2] = (arg.time_offset \div 256) % 256
          /\ buf[3] = (arg.time_offset \div 65536) % 256
          /\ buf[4] = arg.time_offset \div 16777216
          /\ buf[5] = arg.value
    /\ result.op = "RecordInfo_from" => result.rec = arg
    /\ result.op = "Timestamp_as_bytes" =>
          /\ Len(buf) = 7
          /\ buf[1] = ts.year % 256 /\ buf[2] = ts.year \div 256
          /\ SubSeq(buf, 3, 7) = <<ts.month, ts.day, ts.hour, ts.minute, ts.second>>
    /\ result.op = "Timestamp_from" => result.hdr.origin_date = ts

\* a Timestamp whose month and day differ, decoded from its own bytes
C14_Witness ==
    /\ result.op = "Timestamp_from"
    /\ ts = MkTimestamp(513, 1, 2, 3, 4, 5)
    /\ buf = <<1, 2, 1, 2, 3, 4, 5>>
    /\ arg.time_offset = 16777216

\* C17 (as claimed): after every append_record(r) that returns Ok,
\* read_record(c - 1) returns r, c being the records_number then on disk,
\* also when an earlier append_record of the same store failed in
\* update_record_number.
C17_AppendedIsLast ==
    (result.op = "append_record" /\ result.status = "ok") =>
        /\ RecordReadable(disk, DiskCount - 1)
        /\ RecordOf(disk, DiskCount - 1) = result.rec

\* C18: a reorder_record that returns Ok only permutes the records of slots
\* 0..records_number-1: each record is there after as many times as before
\* (records of equal time_offset and different values included), and the 15
\* header bytes, the in-memory header, the length of the file and the bytes
\* past slot records_number-1 are unchanged.
C18_ReorderPermutes ==
    [][(result'.op = "reorder_record" /\ result'.status = "ok") =>
          LET n == header.records_number
          IN  /\ \A i \in 0..(n - 1) :
                    Cardinality({j \in 0..(n - 1) : RecordOf(disk', j) = RecordOf(disk, i)})
                        = Cardinality({j \in 0..(n - 1) : RecordOf(disk, j) = RecordOf(disk, i)})
              /\ SubSeq(disk', 1, 15) = SubSeq(disk, 1, 15)
              /\ header' = header
              /\ Len(disk') = Len(disk)
              /\ SubSeq(disk', 15 + 5 * n + 1, Len(disk')) = SubSeq(disk, 15 + 5 * n + 1, Len(disk))
      ]_vars

\* two records of time_offset 1 and different values reordered, in front of
\* a third slot that the count does not cover
C18_Witness ==
    /\ result.op = "reorder_record" /\ result.status = "ok"
    /\ header.records_number = 2 /\ Slots(disk) = 3
    /\ DiskOffset(0) = 1 /\ DiskOffset(1) = 1
    /\ RecordOf(disk, 0).value # RecordOf(disk, 1).value
    /\ RecordOf(disk, 2) = MkRecord(0, 0)

\* C19 (as claimed): in every state reached from create by open, close,
\* read_header, read_record, update_record_number, append_record,
\* check_db_file and reorder_record calls that return Ok or an IOError, with
\* no external change to the file, the cached records_number equals the
\* records_number stored on disk at offset 7.
C19_CacheMatchesDisk ==
    (phase = "running" /\ HeaderReadable(disk)) =>
        DiskCount = header.records_number

\* C20 (as claimed): no incomplete write is swallowed: create returns Ok only
\* with all 15 header bytes in the file, append_record returns Ok only with
\* the 5 bytes of its record at the end of the file, and reorder_record
\* returns Ok only with every slot below records_number holding, whole, one
\* of the records that were appended.
C20_NoShortWriteSwallowed ==
    /\ (result.op = "create" /\ result.status = "ok") =>
          /\ HeaderReadable(disk)
          /\ HeaderOf(disk) = header
    /\ (result.op = "append_record" /\ result.status = "ok") =>
          SubSeq(disk, Len(disk) - 4, Len(disk)) = RecordInfo_as_bytes(result.rec)
    /\ (result.op = "reorder_record" /\ result.status = "ok") =>
          \A i \in 0..(header.records_number - 1) :
              \E k \in 1..Len(log) : RecordOf(disk, i) = log[k]

\* C21: update_record_number(drn) that returns Ok leaves on disk the count
\* cached before the call plus drn, and the same value in the cache, whatever
\* count the file held (append_record does so with drn = 1); with two
\* PhysicalDB values over one file the count of an append can thus be lost.
C21_RelativeCountUpdate ==
    [][/\ (result'.op = "update_record_number" /\ result'.status = "ok") =>
            /\ HeaderOf(disk').records_number = header.records_number + result'.idx
            /\ header'.records_number = header.records_number + result'.idx
       /\ (result'.op = "append_record" /\ result'.status = "ok") =>
            /\ HeaderOf(disk').records_number = header.records_number + 1
            /\ header'.records_number = header.records_number + 1]_vars

\* the lost update: each of the two stores has appended one record, the file
\* holds 2 record slots and a records_number of 1
C21_Witness ==
    /\ result.op = "append_record" /\ result.status = "ok"
    /\ Len(log) = 2 /\ Slots(disk) = 2
    /\ DiskCount = 1
    /\ header.records_number = 1
    /\ other.phase = "running" /\ other.header.records_number = 1

\* C22: read_header, read_record and check_db_file, returning Ok or Err,
\* change no byte of the file and nothing of the in-memory header; of the
\* store they change at most the handle, from None to Some.
C22_ReadersChangeNothing ==
    [][result'.op \in {"read_header", "read_record", "check_db_file"} =>
          /\ disk' = disk
          /\ header' = header
          /\ file' = file \/ (file = "None" /\ file' = "Some")]_vars

\* read_record failing on a file that holds a records_number of 3 and no
\* record, while the in-memory header counts 1
C22_Witness ==
    /\ result.op = "read_record" /\ result.status = "err" /\ result.idx = 0
    /\ file = "Some"
    /\ Len(disk) = 15 /\ DiskCount = 3
    /\ header.records_number = 1

====
